---- MODULE Spec2Model ----
(***************************************************************************)
(* anon_to_zenodo: zip a directory (core.zip_directory), upload it through *)
(* the Zenodo client (core.upload_cwd), driven by the command line         *)
(* (__main__.run).                                                         *)
(*                                                                         *)
(* A file or directory NAME is a sequence of tokens in which "." is a      *)
(* token of its own, so that pathlib's suffix rule can be computed:        *)
(*   "cache.pyc" is <<"cache", ".", "pyc">>, ".git" is <<".", "git">>.     *)
(* A PATH is the sequence of its pathlib parts; an absolute path starts    *)
(* with the anchor part "/" (the name <<"/">>).  The empty path is ".".    *)
(***************************************************************************)
EXTENDS Naturals, Integers, Sequences, FiniteSets, TLC

\* ---------------------------------------------------------------- bounds
\* Largest number of regular files present in the initial file system.
MaxFiles == 4
\* The same, for the runs that start at the command line.
MaxCliFiles == 1

\* ----------------------------------------------------------------- names
Slash     == <<"/">>
home      == <<"home">>
proj      == <<"proj">>
sub       == <<"sub">>
tmp       == <<"tmp">>
var       == <<"var">>
lnk       == <<"t">>
missing   == <<"missing">>
config    == <<"config">>
build     == <<"build">>
dist      == <<"dist">>
dot_git   == <<".", "git">>
a_txt     == <<"a", ".", "txt">>
b_txt     == <<"b", ".", "txt">>
out_o     == <<"out", ".", "o">>
cache_pyc == <<"cache", ".", "pyc">>
c_pyo     == <<"c", ".", "pyo">>
out_zip   == <<"out", ".", "zip">>

\* Python's None, for a string-valued option and for a list- or path-valued one.
NoneStr == <<"<None>">>
NoneSeq == <<NoneStr>>

\* core.py: DEFAULT_IGNORE
DEFAULT_IGNORE ==
    { <<".", "git">>, <<".", "venv">>, <<".", "mypy_cache">>, <<".", "ruff_cache">>,
      <<".", "pytest_cache">>, <<".", "DS_Store">>, <<"__pycache__">>,
      <<"build">>, <<"dist">>, <<"htmlcov">> }

\* core.py: ALWAYS_IGNORE_SUFFIXES
ALWAYS_IGNORE_SUFFIXES == { <<".", "pyc">>, <<".", "pyo">> }

\* ----------------------------------------------------------- file system
\* The working directory of the process.
Cwd == <<Slash, home, proj>>

\* The regular files that may exist (canonical paths), each with its bytes.
UniverseFiles ==
    { <<Slash, home, proj, a_txt>>,
      <<Slash, home, proj, dot_git, config>>,
      <<Slash, home, proj, build, out_o>>,
      <<Slash, home, proj, cache_pyc>>,
      <<Slash, home, proj, sub, b_txt>>,
      <<Slash, home, proj, sub, c_pyo>>,
      <<Slash, home, proj, sub, dist, b_txt>>,
      <<Slash, build, proj, a_txt>> }

\* One directory symlink: /t -> /home/proj/tmp.
LinkFrom == <<Slash, lnk>>
LinkTo   == <<Slash, home, proj, tmp>>

\* The spellings of the temporary directory tempfile may use (TMPDIR is made
\* absolute but its symlinks are not resolved).
TempDirs == { <<Slash, var>>, <<Slash, home, proj, tmp>>, LinkFrom }

\* The random part of a mkstemp name.
RandTokens == { "k3x9" }

IsPrefix(p, q) == Len(p) <= Len(q) /\ SubSeq(q, 1, Len(p)) = p

\* Path.resolve(): make absolute against the working directory, then replace
\* a symlinked prefix by its target.
Resolve(p) ==
    LET abs == IF p # <<>> /\ p[1] = Slash THEN p ELSE Cwd \o p
    IN  IF IsPrefix(LinkFrom, abs)
          THEN LinkTo \o SubSeq(abs, Len(LinkFrom) + 1, Len(abs))
          ELSE abs

\* The directories of the file system (canonical paths); they exist whether
\* or not they hold files.
Dirs ==
    UNION { { SubSeq(f, 1, i) : i \in 1..(Len(f) - 1) } : f \in UniverseFiles }
      \cup { Resolve(d) : d \in TempDirs }

\* Path.name: the last part; empty for the file-system root and for ".".
PathName(p) == IF p = <<>> \/ p = <<Slash>> THEN <<>> ELSE p[Len(p)]

\* Path.parts as a set.
Parts(p) == { p[i] : i \in 1..Len(p) }

\* Path.suffix: name[i:] for the last "." at 0-based position i with
\* 0 < i < len(name) - 1, else the empty string.
PathSuffix(p) ==
    LET name == PathName(p)
        dots == { i \in 1..Len(name) : name[i] = "." }
    IN  IF dots = {} THEN <<>>
        ELSE LET i == CHOOSE k \in dots : \A j \in dots : j <= k
             IN  IF 1 < i /\ i < Len(name) THEN SubSeq(name, i, Len(name)) ELSE <<>>

\* Path.relative_to(root) for a path under root.
RelativeTo(p, r) == SubSeq(p, Len(r) + 1, Len(p))

\* PurePath.as_posix() of a relative path: its parts joined by "/".
RECURSIVE AsPosix(_)
AsPosix(rel) ==
    IF rel = <<>> THEN <<>>
    ELSE IF Len(rel) = 1 THEN rel[1]
    ELSE rel[1] \o <<"/">> \o AsPosix(Tail(rel))

\* The content of a regular file: plain bytes, or a zip archive with entries.
Data(b)     == [kind |-> "data", bytes |-> b, entries |-> {}]
Zip(es)     == [kind |-> "zip", bytes |-> "", entries |-> es]
\* What a reader sees of an archive that is still being written.
PartialZip  == "<partial-zip>"

\* The bytes of each file of the universe: the files differ in content.
BytesOf(f) ==
    CASE f = <<Slash, home, proj, a_txt>>              -> "A"
      [] f = <<Slash, home, proj, dot_git, config>>    -> "G"
      [] f = <<Slash, home, proj, build, out_o>>       -> "O"
      [] f = <<Slash, home, proj, cache_pyc>>          -> "P"
      [] f = <<Slash, home, proj, sub, b_txt>>         -> "B"
      [] f = <<Slash, home, proj, sub, c_pyo>>         -> "Q"
      [] f = <<Slash, home, proj, sub, dist, b_txt>>   -> "D"
      [] OTHER                                         -> "A2"


\* ------------------------------------------------------------------ state
VARIABLES
    entry,         \* the function the caller invoked: "zip_directory" or "run"
    argv,          \* run: the parsed command line (argparse namespace)
    kw,            \* upload_cwd: its keyword arguments
    zargs,         \* zip_directory: its arguments
    root,          \* zip_directory: root
    ignore_names,  \* zip_directory: ignore_names
    archive_path,  \* zip_directory: archive_path
    zf,            \* zip_directory: the entries written to the open ZipFile
    pending,       \* zip_directory: the paths _iter_paths has still to yield
    files,         \* the file system: canonical path -> content
    files0,        \* the file system when the call began
    calls,         \* the calls made to Zenodo.create, in order
    error,         \* the exception that reached the caller, or "none"
    result,        \* the value returned to the caller, or NoResult
    pc             \* the position of the call

vars == << entry, argv, kw, zargs, root, ignore_names, archive_path, zf, pending,
           files, files0, calls, error, result, pc >>

NoResult == [kind |-> "none", deposition_id |-> "", archive_path |-> NoneSeq]

\* ----------------------------------------------------------------- inputs
\* zip_directory's directory argument, as pathlib parses it ("." is <<>>).
ZipDirs ==
    { <<>>, <<sub>>, <<Slash>>, <<Slash, build, proj>>, <<Slash, missing>>, <<a_txt>> }

\* zip_directory's output argument.
ZipOutputs == { NoneSeq, <<Slash, lnk, out_zip>>, <<Slash, var, out_zip>> }

\* zip_directory's ignore argument.
ZipIgnores == { NoneSeq, <<sub>>, <<a_txt, tmp>> }

\* The command line: --title, --description, --creator (repeatable),
\* --sandbox, --publish, --dir, --license.
CliTitles       == { NoneStr, <<>>, <<"My Backup">> }
CliDescriptions == { NoneStr, <<>>, <<"Snapshot">> }
CliCreators     == { NoneSeq, << <<"Doe, Jane">>, <<"Roe, Richard">> >> }
CliDirs         == { <<>>, <<Slash>>, <<Slash, missing>>, <<a_txt>> }
CliLicenses     == { <<"CC0-1.0">>, <<"MIT">> }

ArgvSet ==
    [ title : CliTitles, description : CliDescriptions, creators : CliCreators,
      sandbox : BOOLEAN, publish : BOOLEAN, directory : CliDirs,
      license : CliLicenses ]

NoArgv ==
    [ title |-> NoneStr, description |-> NoneStr, creators |-> NoneSeq,
      sandbox |-> FALSE, publish |-> FALSE, directory |-> <<>>,
      license |-> <<"CC0-1.0">> ]

NoZargs == [ directory |-> <<>>, output |-> NoneSeq, ignore |-> NoneSeq ]

\* What the remote service may answer.
DepositionIds == { "101" }
RemoteErrors  == { "AuthError", "NetworkError", "ValidationError" }

InitialFileSets(n) == { S \in SUBSET UniverseFiles : Cardinality(S) <= n }

Init ==
    /\ \/ /\ entry = "zip_directory"
          /\ \E S \in InitialFileSets(MaxFiles) :
                files = [ f \in S |-> Data(BytesOf(f)) ]
          /\ pc = "zip_directory"
          /\ zargs \in [ directory : ZipDirs, output : ZipOutputs, ignore : ZipIgnores ]
          /\ argv = NoArgv
       \/ /\ entry = "run"
          /\ \E S \in InitialFileSets(MaxCliFiles) :
                files = [ f \in S |-> Data(BytesOf(f)) ]
          /\ pc = "run"
          /\ argv \in ArgvSet
          /\ zargs = NoZargs
    /\ files0 = files
    /\ kw = NoArgv
    /\ root = <<>>
    /\ ignore_names = {}
    /\ archive_path = NoneSeq
    /\ zf = {}
    /\ pending = {}
    /\ calls = <<>>
    /\ error = "none"
    /\ result = NoResult

\* ------------------------------------------------------------- __main__.py
\* Python truthiness of an optional string, and of an optional list: None and
\* the empty value are false.
FalsyStr(v)  == v = NoneStr \/ v = <<>>
FalsyList(v) == v = NoneSeq \/ v = <<>>

\* run, lines 81-89: the dynamic defaults.  "" and "." parse to the same
\* path, so `directory or "."` is the directory itself.
DefaultTitle(a) ==
    IF FalsyStr(a.title) THEN PathName(Resolve(a.directory)) ELSE a.title

DefaultDescription(a) ==
    IF FalsyStr(a.description)
      THEN <<"automatic anonymization and uplaod to zenodo">>
      ELSE a.description

\* A variant of DefaultCreators that forgets the placeholder.
DefaultCreators_Keep(a) == a.creators

DefaultCreators(a) ==
    IF FalsyList(a.creators) THEN << <<"Authors, Anonymous">> >> ELSE a.creators

\* build_parser: --publish is a store_true flag, FALSE unless given.
ParsedPublish(a) == a.publish

\* run, lines 77-108: parse, apply the defaults, call upload_cwd.
Run ==
    /\ pc = "run"
    /\ kw' = [ title |-> DefaultTitle(argv),
               description |-> DefaultDescription(argv),
               creators |-> DefaultCreators(argv),
               sandbox |-> argv.sandbox,
               directory |-> argv.directory,
               publish |-> ParsedPublish(argv),
               license |-> argv.license ]
    /\ pc' = "upload_cwd"
    /\ UNCHANGED << entry, argv, zargs, root, ignore_names, archive_path, zf,
                    pending, files, files0, calls, error, result >>

\* run, lines 109-113: print the landing page or the JSON, return 0.
RunPrint ==
    /\ pc = "upload_returned"
    /\ pc' = "exit"
    /\ UNCHANGED << entry, argv, kw, zargs, root, ignore_names, archive_path, zf,
                    pending, files, files0, calls, error, result >>

\* ------------------------------------------------------------------ core.py
\* upload_cwd, line 120: archive = zip_directory(directory).
UploadCwd ==
    /\ pc = "upload_cwd"
    /\ zargs' = [ directory |-> kw.directory, output |-> NoneSeq, ignore |-> NoneSeq ]
    /\ pc' = "zip_directory"
    /\ UNCHANGED << entry, argv, kw, root, ignore_names, archive_path, zf,
                    pending, files, files0, calls, error, result >>

IsDir(p)  == p \in Dirs
IsFile(fs, p) == p \in DOMAIN fs

\* root.rglob("*"): every path strictly below root, files and directories.
RGlob(fs, r) == { p \in (DOMAIN fs) \cup Dirs : IsPrefix(r, p) /\ p # r }

\* A variant of _iter_paths that tests only the last part of each path.
IterPaths_NameOnly(fs, r, ignored) ==
    { p \in RGlob(fs, r) :
        /\ PathName(p) \notin ignored
        /\ ~ (IsFile(fs, p) /\ PathSuffix(p) \in ALWAYS_IGNORE_SUFFIXES)
        /\ IsFile(fs, p) }

\* _iter_paths, lines 42-50.
IterPaths(fs, r, ignored) ==
    { p \in RGlob(fs, r) :
        /\ ~ (\E part \in Parts(p) : part \in ignored)
        /\ ~ (IsFile(fs, p) /\ PathSuffix(p) \in ALWAYS_IGNORE_SUFFIXES)
        /\ IsFile(fs, p) }

\* zip_directory, line 65: DEFAULT_IGNORE.union(ignore or []).
IgnoreNames(ignore) ==
    DEFAULT_IGNORE \cup (IF FalsyList(ignore) THEN {} ELSE Parts(ignore))

\* A variant of lines 62-65 without the is_dir test.
ZipValidate_NoCheck ==
    /\ pc = "zip_directory"
    /\ root' = Resolve(zargs.directory)
    /\ ignore_names' = IgnoreNames(zargs.ignore)
    /\ pc' = "zip_output"
    /\ UNCHANGED << entry, argv, kw, zargs, archive_path, zf, pending, files,
                    files0, calls, error, result >>

\* zip_directory, lines 62-65.
ZipValidate ==
    /\ pc = "zip_directory"
    /\ root' = Resolve(zargs.directory)
    /\ IF ~ IsDir(root')
         THEN /\ error' = "ValueError"
              /\ pc' = "raised"
              /\ UNCHANGED ignore_names
         ELSE /\ ignore_names' = IgnoreNames(zargs.ignore)
              /\ pc' = "zip_output"
              /\ UNCHANGED error
    /\ UNCHANGED << entry, argv, kw, zargs, archive_path, zf, pending, files,
                    files0, calls, result >>

\* tempfile.mkstemp(prefix=f"{root.name}-", suffix=".zip"): the new path.
TempPath(dir, r, tok) == dir \o << PathName(r) \o <<"-", tok, ".", "zip">> >>

\* zip_directory, lines 67-70: no output given, an empty temporary file is
\* created and its path, as tempfile spells it, becomes the archive path.
ZipMkstemp ==
    /\ pc = "zip_output"
    /\ zargs.output = NoneSeq
    /\ \E dir \in TempDirs, tok \in RandTokens :
         LET tmp_path == TempPath(dir, root, tok)
         IN  /\ Resolve(tmp_path) \notin DOMAIN files
             /\ files' = [ p \in (DOMAIN files) \cup { Resolve(tmp_path) } |->
                             IF p = Resolve(tmp_path) THEN Data("") ELSE files[p] ]
             /\ archive_path' = tmp_path
    /\ pc' = "zip_open"
    /\ UNCHANGED << entry, argv, kw, zargs, root, ignore_names, zf, pending,
                    files0, calls, error, result >>

\* zip_directory, lines 71-72: archive_path = Path(output).resolve().
ZipResolveOutput ==
    /\ pc = "zip_output"
    /\ zargs.output # NoneSeq
    /\ archive_path' = Resolve(zargs.output)
    /\ pc' = "zip_open"
    /\ UNCHANGED << entry, argv, kw, zargs, root, ignore_names, zf, pending,
                    files, files0, calls, error, result >>

\* The file system with `content` stored at the (resolved) path p.
WriteFile(fs, p, content) ==
    [ q \in (DOMAIN fs) \cup { Resolve(p) } |->
        IF q = Resolve(p) THEN content ELSE fs[q] ]

\* An archive that is open for writing, as a reader of the file sees it.
OpenZip == [kind |-> "partial", bytes |-> PartialZip, entries |-> {}]

\* zip_directory, lines 77-78: ZipFile(archive_path, "w") creates or truncates
\* the file, then the walk of the root begins.
ZipOpen ==
    /\ pc = "zip_open"
    /\ files' = WriteFile(files, archive_path, OpenZip)
    /\ zf' = {}
    /\ pending' = IterPaths(files', root, ignore_names)
    /\ pc' = "zip_write"
    /\ UNCHANGED << entry, argv, kw, zargs, root, ignore_names, archive_path,
                    files0, calls, error, result >>

\* zip_directory, line 77: ZipFile cannot open the archive path (permission
\* denied); the error propagates, what mkstemp created stays.
ZipOpenFail ==
    /\ pc = "zip_open"
    /\ error' = "OSError"
    /\ pc' = "raised"
    /\ UNCHANGED << entry, argv, kw, zargs, root, ignore_names, archive_path, zf,
                    pending, files, files0, calls, result >>

\* The entry zf.write(file_path, arcname.as_posix()) adds.
ZipEntry(fs, r, file_path) ==
    [ name |-> AsPosix(RelativeTo(file_path, r)), data |-> fs[file_path].bytes ]

\* zip_directory, line 80: the self-inclusion test.
IsArchiveItself(file_path, apath) == file_path = apath

\* zip_directory, lines 78-83: one turn of the loop.
ZipWrite ==
    /\ pc = "zip_write"
    /\ \E file_path \in pending :
         /\ pending' = pending \ { file_path }
         /\ IF IsArchiveItself(file_path, archive_path)
              THEN UNCHANGED zf
              ELSE zf' = zf \cup { ZipEntry(files, root, file_path) }
    /\ UNCHANGED << entry, argv, kw, zargs, root, ignore_names, archive_path,
                    files, files0, calls, error, result, pc >>

\* zip_directory, lines 77-83: zf.write raises.  The with block closes the
\* ZipFile on the way out: when the source could not be read the central
\* directory of the entries so far is written; when the archive's storage
\* failed the file stays truncated.
ZipWriteFail ==
    /\ pc = "zip_write"
    /\ \E file_path \in pending :
         /\ ~ IsArchiveItself(file_path, archive_path)
         /\ pending' = pending \ { file_path }
    /\ \E cause \in { "source", "storage" } :
         files' = WriteFile(files, archive_path,
                            IF cause = "source" THEN Zip(zf) ELSE OpenZip)
    /\ error' = "OSError"
    /\ pc' = "raised"
    /\ UNCHANGED << entry, argv, kw, zargs, root, ignore_names, archive_path, zf,
                    files0, calls, result >>

\* zip_directory, lines 77, 84-89: the loop is over, the ZipFile is closed
\* and the archive path returned.
ZipClose ==
    /\ pc = "zip_write"
    /\ pending = {}
    /\ files' = WriteFile(files, archive_path, Zip(zf))
    /\ IF entry = "zip_directory"
         THEN /\ result' = [ kind |-> "path", deposition_id |-> "",
                             archive_path |-> archive_path ]
              /\ pc' = "returned"
         ELSE /\ UNCHANGED result
              /\ pc' = "create"
    /\ UNCHANGED << entry, argv, kw, zargs, root, ignore_names, archive_path, zf,
                    pending, files0, calls, error >>

\* upload_cwd, lines 121-130: the metadata and the call to Zenodo.create.
CreateCall(answer) ==
    [ metadata |-> [ title |-> kw.title, upload_type |-> "dataset",
                     description |-> kw.description, creators |-> kw.creators,
                     license |-> kw.license ],
      paths |-> << archive_path >>,
      publish |-> kw.publish,
      sandbox |-> kw.sandbox,
      answer |-> answer ]

\* A variant of lines 121-131 that tries again when the service fails.
UploadCreate_Retry ==
    /\ pc = "create"
    /\ \/ \E id \in DepositionIds :
            /\ calls' = Append(calls, CreateCall(id))
            /\ result' = [ kind |-> "UploadResult", deposition_id |-> id,
                           archive_path |-> archive_path ]
            /\ pc' = "upload_returned"
       \/ \E e \in RemoteErrors :
            /\ calls' = Append(calls, CreateCall(e))
            /\ UNCHANGED << result, pc >>
    /\ UNCHANGED << entry, argv, kw, zargs, root, ignore_names, archive_path, zf,
                    pending, files, files0, error >>

\* upload_cwd, lines 121-131: one call to the remote service; its error
\* propagates, its answer becomes the UploadResult.
UploadCreate ==
    /\ pc = "create"
    /\ \/ \E id \in DepositionIds :
            /\ calls' = Append(calls, CreateCall(id))
            /\ result' = [ kind |-> "UploadResult", deposition_id |-> id,
                           archive_path |-> archive_path ]
            /\ pc' = "upload_returned"
            /\ UNCHANGED error
       \/ \E e \in RemoteErrors :
            /\ calls' = Append(calls, CreateCall(e))
            /\ error' = e
            /\ pc' = "raised"
            /\ UNCHANGED result
    /\ UNCHANGED << entry, argv, kw, zargs, root, ignore_names, archive_path, zf,
                    pending, files, files0 >>

Next ==
    \/ Run
    \/ UploadCwd
    \/ ZipValidate
    \/ ZipMkstemp
    \/ ZipResolveOutput
    \/ ZipOpen
    \/ ZipOpenFail
    \/ ZipWrite
    \/ ZipWriteFail
    \/ ZipClose
    \/ UploadCreate
    \/ RunPrint

Spec == Init /\ [][Next]_vars

\* ------------------------------------------------------- claim vocabulary
\* zip_directory has returned its path (to the caller, or to upload_cwd).
ZipReturned ==
    \/ pc \in { "returned", "create", "upload_returned", "exit" }
    \/ pc = "raised" /\ calls # <<>>

\* zip_directory has failed.
ZipFailed == pc = "raised" /\ calls = <<>>

\* The file at the archive path.
ArchiveFile == files[Resolve(archive_path)]

\* The ignore set of the call: the defaults united with the caller's extras.
ClaimIgnoreSet ==
    DEFAULT_IGNORE \cup (IF zargs.ignore = NoneSeq THEN {} ELSE Parts(zargs.ignore))

\* The regular files that were under the root when the call began, whose path
\* under the root has no ignored segment and whose suffix is not excluded.
KeptFiles ==
    { p \in DOMAIN files0 :
        /\ IsPrefix(root, p) /\ p # root
        /\ Parts(RelativeTo(p, root)) \cap ClaimIgnoreSet = {}
        /\ PathSuffix(p) \notin ALWAYS_IGNORE_SUFFIXES }

\* Reading an entry name back: the relative path whose parts "/" separates.
RECURSIVE SplitPosix(_)
SplitPosix(s) ==
    LET cuts == { i \in 1..Len(s) : s[i] = "/" }
    IN  IF s = <<>> THEN <<>>
        ELSE IF cuts = {} THEN << s >>
        ELSE LET i == CHOOSE k \in cuts : \A j \in cuts : k <= j
             IN  << SubSeq(s, 1, i - 1) >> \o SplitPosix(SubSeq(s, i + 1, Len(s)))

\* Extracting an archive: relative path and bytes of every entry.
Extract(es) == { [ path |-> SplitPosix(e.name), data |-> e.data ] : e \in es }

\* ------------------------------------------------------------------ claims
\* C1: a successful zip_directory produces an archive that holds every regular
\* file under the root whose path under the root has no segment in the ignore
\* set and whose suffix is not always excluded, whatever the directories above
\* the root are called.
C1_EveryKeptFileArchived ==
    ZipReturned =>
        \A p \in KeptFiles :
            \E e \in ArchiveFile.entries : e.name = AsPosix(RelativeTo(p, root))

\* C2: no entry of the archive, while it is written or afterwards, has a path
\* segment in the ignore set (defaults united with extras) or a final suffix
\* in the always-excluded set, at any depth.
C2_NoIgnoredEntry ==
    \A e \in zf \cup UNION { files[p].entries : p \in DOMAIN files } :
        /\ Parts(SplitPosix(e.name)) \cap ClaimIgnoreSet = {}
        /\ PathSuffix(SplitPosix(e.name)) \notin ALWAYS_IGNORE_SUFFIXES

\* C2's case: a finished archive with entries, made from a root that held a
\* file below an ignored directory and a file with an excluded suffix.
C2_Witness ==
    /\ pc = "returned"
    /\ ArchiveFile.entries # {}
    /\ \E p \in DOMAIN files0 :
         /\ IsPrefix(root, p)
         /\ Len(RelativeTo(p, root)) > 1
         /\ Parts(RelativeTo(p, root)) \cap ClaimIgnoreSet # {}
    /\ \E p \in DOMAIN files0 :
         /\ IsPrefix(root, p)
         /\ PathSuffix(p) \in ALWAYS_IGNORE_SUFFIXES

\* C3: the archive never contains itself as an entry, with an explicit output
\* path inside the root and with a temporary file that lies under the root.
C3_ArchiveNotInItself ==
    LET a == Resolve(archive_path)
    IN  (archive_path # NoneSeq /\ IsPrefix(root, a)) =>
            \A e \in zf : e.name # AsPosix(RelativeTo(a, root))

\* C4: no partial success: when zip_directory returns, the archive is complete;
\* when it fails, no file is left at the archive path (no archive of the first
\* files, no empty temporary file).
C4_NoPartialSuccess ==
    /\ ZipReturned => (ArchiveFile.kind = "zip" /\ pending = {})
    /\ (ZipFailed /\ archive_path # NoneSeq) =>
           Resolve(archive_path) \notin DOMAIN files

\* C5: at the command line publish defaults to true: with no publish option
\* given, upload_cwd is invoked with publish = TRUE.
C5_PublishDefaultsTrue ==
    (entry = "run" /\ pc # "run" /\ ~ argv.publish) => kw.publish

\* C6: Zenodo.create is called at most once, only after zip_directory has
\* returned a finished archive, with that archive as its one path; a failed
\* archiving means no call; a failed call reaches the caller as it was raised
\* and no UploadResult is returned.
C6_CreateOnceAfterArchive ==
    /\ Len(calls) <= 1
    /\ calls # <<>> =>
         /\ calls[1].paths = << archive_path >>
         /\ Resolve(archive_path) \in DOMAIN files
         /\ ArchiveFile.kind = "zip"
         /\ pending = {}
    /\ (pc = "raised" /\ error \in { "ValueError", "OSError" }) => calls = <<>>
    /\ (calls # <<>> /\ calls[1].answer \in RemoteErrors) =>
         /\ pc = "raised"
         /\ error = calls[1].answer
         /\ result = NoResult
    /\ result.kind = "UploadResult" =>
         /\ calls # <<>>
         /\ calls[1].answer = result.deposition_id

\* C6's case: the one call was made and the service refused it.
C6_Witness ==
    /\ Len(calls) = 1
    /\ calls[1].answer = "ValidationError"
    /\ error = "ValidationError"
    /\ ArchiveFile.entries # {}

\* C7: a root that is not an existing directory (missing, or a regular file)
\* makes the call fail with ValueError, the file system as it was (no temporary
\* file, no output file) and no remote call made.
C7_BadRootRejected ==
    (pc \notin { "run", "upload_cwd", "zip_directory" }
       /\ Resolve(zargs.directory) \notin Dirs) =>
        /\ pc = "raised"
        /\ error = "ValueError"
        /\ files = files0
        /\ calls = <<>>
        /\ result = NoResult

\* C7's case: the command line named a regular file as the directory.
C7_Witness ==
    /\ entry = "run"
    /\ pc = "raised"
    /\ error = "ValueError"
    /\ root \in DOMAIN files

\* The fixed description and the placeholder creator of the command line.
PlaceholderDescription == <<"automatic anonymization and uplaod to zenodo">>
PlaceholderCreators    == << <<"Authors, Anonymous">> >>

\* What upload_cwd was given is what the remote service is sent.
SentAsGiven ==
    \A i \in DOMAIN calls :
        /\ calls[i].metadata.title = kw.title
        /\ calls[i].metadata.description = kw.description
        /\ calls[i].metadata.creators = kw.creators

\* C8 as stated: without --title and --creator the upload gets the name of the
\* resolved target directory and the placeholder creator, a missing
\* description becomes the placeholder, and every value the user did supply is
\* passed through unchanged.
C8_SuppliedPassedUnchanged ==
    (entry = "run" /\ pc # "run") =>
        /\ kw.title = IF argv.title = NoneStr
                        THEN PathName(Resolve(argv.directory)) ELSE argv.title
        /\ kw.description = IF argv.description = NoneStr
                              THEN PlaceholderDescription ELSE argv.description
        /\ kw.creators = IF argv.creators = NoneSeq
                           THEN PlaceholderCreators ELSE argv.creators
        /\ SentAsGiven

\* C8 amended: a title or description that is absent or empty is replaced by
\* the default (directory name, placeholder); absent creators are replaced by
\* the placeholder; every non-empty value supplied is passed unchanged.
C8_NonEmptyPassedUnchanged ==
    (entry = "run" /\ pc # "run") =>
        /\ kw.title = IF argv.title \in { NoneStr, <<>> }
                        THEN PathName(Resolve(argv.directory)) ELSE argv.title
        /\ kw.description = IF argv.description \in { NoneStr, <<>> }
                              THEN PlaceholderDescription ELSE argv.description
        /\ kw.creators = IF argv.creators = NoneSeq
                           THEN PlaceholderCreators ELSE argv.creators
        /\ SentAsGiven

\* C8's case: no title, no creator, no description, and the upload was made.
C8_Witness ==
    /\ entry = "run"
    /\ argv.title = NoneStr /\ argv.creators = NoneSeq /\ argv.description = NoneStr
    /\ Len(calls) = 1
    /\ calls[1].metadata.title = proj
    /\ calls[1].metadata.creators = PlaceholderCreators
    /\ pc = "exit"

\* C9: every metadata record the command line submits has a non-empty title,
\* for every --title and every --dir.
C9_TitleNonEmpty ==
    \A i \in DOMAIN calls : calls[i].metadata.title # <<>>

\* C10: round trip: extracting the archive gives exactly the relative paths of
\* the non-ignored regular files of the root, each with the bytes of its source.
C10_RoundTrip ==
    ZipReturned =>
        Extract(ArchiveFile.entries) =
            { [ path |-> RelativeTo(p, root), data |-> files0[p].bytes ] : p \in KeptFiles }

====
